---- MODULE Spec2Model ----
(***************************************************************************)
(* Model of the media_api file storage service (src/app/main.py): the      *)
(* request handlers upload_file, get_file, get_file_info, update_file,     *)
(* delete_file and list_files, running concurrently against the GridFS     *)
(* bucket (blob store) and the gridfs_files collection (record store).     *)
(* Each handler is cut into atomic steps at its awaits on a store.         *)
(* Strings are tuples of one-character strings; Optional[T] is a tuple of  *)
(* length 0 (None) or 1.                                                   *)
(***************************************************************************)
EXTENDS Integers, Sequences, FiniteSets, TLC

\* ------------------------------------------------------------------ bounds
\* Number of uploads that may reach the blob store (fresh ObjectIds handed out).
MaxUploads == 2
\* Number of requests that may arrive in one behaviour.
MaxOps == 3
\* Bytes per GridFS chunk (the bucket's chunk size, scaled down).
ChunkSize == 2
\* Largest record store the list_files specification starts from, beyond le=1000.
MaxListExtra == 1

\* ------------------------------------------------------------ basic values
None == << >>
Some(v) == <<v>>
IsNone(o) == o = << >>
Get(o) == o[1]

Min(a, b) == IF a < b THEN a ELSE b

\* FileStatus (src/app/models/file.py)
ACTIVE == "active"
FLAGGED == "flagged"
DELETED == "deleted"
PROCESSING == "processing"
PENDING_REVIEW == "pending_review"
FileStatus == {ACTIVE, FLAGGED, DELETED, PROCESSING, PENDING_REVIEW}

\* The concurrently running request handlers (one slot per in-flight request).
Reqs == {"r1", "r2"}

\* ----------------------------------------------------------------- strings
HexDigits == {"0", "1", "2", "3", "4", "5", "6", "7", "8", "9",
              "a", "b", "c", "d", "e", "f", "A", "B", "C", "D", "E", "F"}

\* str.startswith(prefix)
StartsWith(s, p) == Len(s) >= Len(p) /\ SubSeq(s, 1, Len(p)) = p

\* file.content_type.startswith(("image/", "video/")) with the None/empty test
ImagePrefix == <<"i", "m", "a", "g", "e", "/">>
VideoPrefix == <<"v", "i", "d", "e", "o", "/">>

\* the test without its startswith: any content type that is present passes
PresentContentType(ct) == ~IsNone(ct) /\ Get(ct) # << >>

ValidContentType(ct) ==
    /\ ~IsNone(ct)
    /\ Get(ct) # << >>
    /\ (StartsWith(Get(ct), ImagePrefix) \/ StartsWith(Get(ct), VideoPrefix))

\* ObjectId.is_valid(str): 24 hexadecimal characters
OidHexLen == 24

ObjectIdIsValid(s) ==
    /\ Len(s) = OidHexLen
    /\ \A i \in 1..Len(s) : s[i] \in HexDigits

HexOf(n) == <<"0", "1", "2", "3", "4", "5", "6", "7", "8", "9",
              "a", "b", "c", "d", "e", "f">>[(n % 16) + 1]

\* str(ObjectId): the n-th ObjectId the driver generates, as 24 hex characters
OidStr(n) == [i \in 1..OidHexLen |-> IF i = OidHexLen THEN HexOf(n)
                                     ELSE IF i = OidHexLen - 1 THEN HexOf(n \div 16)
                                     ELSE "0"]

\* tag.strip()
RECURSIVE LStrip(_)
LStrip(s) == IF s # << >> /\ s[1] = " " THEN LStrip(Tail(s)) ELSE s
RECURSIVE RStrip(_)
RStrip(s) == IF s # << >> /\ s[Len(s)] = " " THEN RStrip(SubSeq(s, 1, Len(s) - 1)) ELSE s
Strip(s) == RStrip(LStrip(s))

\* tags.split(",")
RECURSIVE SplitComma(_, _)
SplitComma(s, cur) ==
    IF s = << >> THEN <<cur>>
    ELSE IF s[1] = "," THEN <<cur>> \o SplitComma(Tail(s), << >>)
    ELSE SplitComma(Tail(s), Append(cur, s[1]))

RECURSIVE StripDropEmpty(_)
StripDropEmpty(parts) ==
    IF parts = << >> THEN << >>
    ELSE IF Strip(parts[1]) # << >>
         THEN <<Strip(parts[1])>> \o StripDropEmpty(Tail(parts))
         ELSE StripDropEmpty(Tail(parts))

\* [tag.strip() for tag in tags.split(",") if tag.strip()], [] when tags is falsy
ParseTags(tags) ==
    IF IsNone(tags) \/ Get(tags) = << >> THEN << >>
    ELSE StripDropEmpty(SplitComma(Get(tags), << >>))

\* ------------------------------------------------------------------ GridFS
\* upload_from_stream cuts what it reads into chunks of ChunkSize bytes.
RECURSIVE SplitChunks(_)
SplitChunks(bytes) ==
    IF bytes = << >> THEN << >>
    ELSE IF Len(bytes) <= ChunkSize THEN <<bytes>>
    ELSE <<SubSeq(bytes, 1, ChunkSize)>> \o SplitChunks(SubSeq(bytes, ChunkSize + 1, Len(bytes)))

RECURSIVE JoinChunks(_)
JoinChunks(chunks) ==
    IF chunks = << >> THEN << >> ELSE chunks[1] \o JoinChunks(Tail(chunks))

\* ObjectId(file_id): hexadecimal is read case-insensitively
LowerHex(c) == CASE c = "A" -> "a" [] c = "B" -> "b" [] c = "C" -> "c"
                 [] c = "D" -> "d" [] c = "E" -> "e" [] c = "F" -> "f"
                 [] OTHER -> c
ObjectIdOf(s) == [i \in 1..Len(s) |-> LowerHex(s[i])]

\* ------------------------------------------------------------------- state
VARIABLES
    fs,            \* gridfs_bucket: ObjectId -> [filename, length, chunks, metadata]
    records,       \* gridfs_files collection: document _id -> GridFSFile
    nextOid,       \* ObjectIds the GridFS driver has handed out, plus one
    nextDocId,     \* document _ids the record store has handed out, plus one
    clock,         \* requests arrived so far
    req,           \* per handler slot: [op, pc, inp, loc, resp]
    grid_out,      \* per handler slot: the blob-read handle of get_file
    wire,          \* per handler slot: the bytes get_file has yielded to the response
    conn,          \* per handler slot: whether the client is still connected
    listResp,      \* the last response of list_files
    \* history of the run, read by the properties only
    origin,        \* ObjectId -> the payload the client sent in the upload that got it
    insertFailed,  \* blobs whose upload failed at gridfs_file.insert()
    blobLeft,      \* blobs whose gridfs_bucket.delete raised and left the blob in place
    recLeft,       \* file ids whose file_doc.delete() raised and left the record
    permDeleted,   \* file ids a permanent delete has answered "File permanently deleted" for
    removed,       \* file ids whose record a permanent delete has removed
    softClean,     \* files (record and blob present) whose last store write was a soft delete
    lateWrites     \* file ids an update or soft delete wrote to after their record was removed

vars == <<fs, records, nextOid, nextDocId, clock, req, grid_out, wire, conn, listResp,
          origin, insertFailed, blobLeft, recLeft, permDeleted, removed, softClean,
          lateWrites>>

stores == <<fs, records, nextOid, nextDocId>>
history == <<origin, insertFailed, blobLeft, recLeft, permDeleted, removed, softClean,
             lateWrites>>
streams == <<grid_out, wire, conn>>

NoResp == [status |-> 0, body |-> None]
NoList == [query |-> None, status |-> 0, body |-> << >>]
Idle == [op |-> "idle", pc |-> "idle", inp |-> None, loc |-> None, resp |-> NoResp]
NoHandle == [open |-> FALSE, opened |-> FALSE, oid |-> None, length |-> 0, pos |-> 0,
             how |-> "none", detected |-> FALSE]

\* HTTPException(status, detail) and a normal return
Fail(q, status, detail) ==
    [q EXCEPT !.pc = "done", !.loc = None, !.resp = [status |-> status, body |-> Some(detail)]]
Reply(q, body) ==
    [q EXCEPT !.pc = "done", !.loc = None, !.resp = [status |-> 200, body |-> Some(body)]]
Goto(q, pc, loc) == [q EXCEPT !.pc = pc, !.loc = loc]

\* a request is taken by the first handler slot that is free; it enters the model
\* with the first step of its handler
FreeSlots == {r \in Reqs : req[r].pc \in {"idle", "done"}}
FirstFree(r) == r \in FreeSlots /\ (r = "r1" \/ "r1" \notin FreeSlots)
Begin(op, inp) == [op |-> op, pc |-> "start", inp |-> inp, loc |-> None, resp |-> NoResp]
Accept(r) ==
    /\ FirstFree(r)
    /\ clock < MaxOps
    /\ clock' = clock + 1
    /\ grid_out' = [grid_out EXCEPT ![r] = NoHandle]
    /\ wire' = [wire EXCEPT ![r] = << >>]
    /\ conn' = [conn EXCEPT ![r] = TRUE]

\* GridFSFile.find_one({"file_id": file_id}): the matching documents' _ids
DocsOf(file_id) == {d \in DOMAIN records : records[d].file_id = file_id}
FindOne(file_id) ==
    IF DocsOf(file_id) = {} THEN None
    ELSE Some(CHOOSE d \in DocsOf(file_id) : \A e \in DocsOf(file_id) : d <= e)

\* FileListResponse(id=..., filename=..., ...)
FileListResponse(doc) ==
    [id |-> doc.id, filename |-> doc.filename, content_type |-> doc.content_type,
     upload_date |-> doc.upload_date, file_size |-> doc.file_size, status |-> doc.status,
     owner_id |-> doc.owner_id, tags |-> doc.tags, description |-> doc.description]

InitStores ==
    /\ fs = << >>
    /\ records = << >>
    /\ nextOid = 1
    /\ nextDocId = 1

InitRest ==
    /\ clock = 0
    /\ req = [r \in Reqs |-> Idle]
    /\ grid_out = [r \in Reqs |-> NoHandle]
    /\ wire = [r \in Reqs |-> << >>]
    /\ conn = [r \in Reqs |-> TRUE]
    /\ listResp = NoList
    /\ origin = << >>
    /\ insertFailed = {}
    /\ blobLeft = {}
    /\ recLeft = {}
    /\ permDeleted = {}
    /\ removed = {}
    /\ softClean = {}
    /\ lateWrites = {}

Init == InitStores /\ InitRest

\* ------------------------------------------------------------ POST /upload
s_image_png == <<"i", "m", "a", "g", "e", "/", "p", "n", "g">>
s_video_mp4 == <<"v", "i", "d", "e", "o", "/", "m", "p", "4">>
s_text_plain == <<"t", "e", "x", "t", "/", "p", "l", "a", "i", "n">>
s_Image_png == <<"I", "m", "a", "g", "e", "/", "p", "n", "g">>
s_a_png == <<"a", ".", "p", "n", "g">>
s_cafe_png == <<"c", "a", "f", "U+00E9", ".", "p", "n", "g">>
s_unnamed_file == <<"u", "n", "n", "a", "m", "e", "d", "_", "f", "i", "l", "e">>
s_file == <<"f", "i", "l", "e">>
s_tags_messy == <<" ", "a", " ", ",", ",", "b", ",", " ">>
s_u1 == <<"u", "1">>
s_desc == <<"d">>

UploadInputs ==
    { [content_type |-> Some(s_image_png), filename |-> Some(s_cafe_png),
       content |-> <<1, 2, 3, 4>>, owner_id |-> None, tags |-> Some(s_tags_messy),
       description |-> None],
      [content_type |-> Some(s_video_mp4), filename |-> None,
       content |-> << >>, owner_id |-> Some(s_u1), tags |-> None,
       description |-> Some(s_desc)],
      [content_type |-> Some(s_text_plain), filename |-> Some(s_a_png),
       content |-> <<1, 2, 3>>, owner_id |-> None, tags |-> None, description |-> None],
      [content_type |-> Some(s_Image_png), filename |-> Some(s_a_png),
       content |-> <<9>>, owner_id |-> None, tags |-> None, description |-> None],
      [content_type |-> None, filename |-> Some(s_a_png),
       content |-> <<9>>, owner_id |-> None, tags |-> None, description |-> None] }

\* uploads that have not yet reached the blob store
PendingUploads == {r \in Reqs : req[r].op = "upload" /\ req[r].pc = "upload_blob"}

\* file.read() from a position: the rest of the spooled file
ReadFrom(content, pos) == SubSeq(content, pos + 1, Len(content))

\* await file.seek(0) after the read that measured the size
NoSeek(content) == Len(content)
SeekAfterRead(content) == 0

\* lines 74-90: validation, file.read(), file.seek(0), tag parsing
UploadValidate(r, in) ==
    /\ Accept(r)
    /\ ValidContentType(in.content_type) => nextOid + Cardinality(PendingUploads) <= MaxUploads
    /\ LET q == Begin("upload", in) IN
       IF ~ValidContentType(in.content_type)
       THEN req' = [req EXCEPT ![r] = Fail(q, 400, "Only images and videos are allowed")]
       ELSE LET file_content == ReadFrom(in.content, 0)
                loc == [content_type |-> Get(in.content_type),
                        filename |-> IF IsNone(in.filename) \/ Get(in.filename) = << >>
                                     THEN s_unnamed_file ELSE Get(in.filename),
                        file_size |-> Len(file_content),
                        file_pos |-> SeekAfterRead(in.content),
                        tag_list |-> ParseTags(in.tags),
                        file_id |-> None]
            IN req' = [req EXCEPT ![r] = Goto(q, "upload_blob", Some(loc))]
    /\ UNCHANGED <<stores, listResp, history>>

\* lines 92-102: gridfs_bucket.upload_from_stream(filename, file.file, metadata=...)
UploadToGridFS(r) ==
    /\ req[r].op = "upload" /\ req[r].pc = "upload_blob"
    /\ LET loc == Get(req[r].loc)
           in == req[r].inp
           oid == OidStr(nextOid)
           data == ReadFrom(in.content, loc.file_pos)
           blob == [filename |-> loc.filename, length |-> Len(data),
                    chunks |-> SplitChunks(data),
                    metadata |-> [content_type |-> loc.content_type,
                                  original_name |-> loc.filename,
                                  owner_id |-> in.owner_id,
                                  file_size |-> loc.file_size]]
       IN \/ /\ fs' = (oid :> blob) @@ fs
             /\ nextOid' = nextOid + 1
             /\ origin' = (oid :> in.content) @@ origin
             /\ req' = [req EXCEPT ![r] = Goto(req[r], "insert", Some([loc EXCEPT !.file_id = Some(oid)]))]
          \/ \* the blob store raises: nothing is written, the handler ends with a 500
             /\ req' = [req EXCEPT ![r] = Fail(req[r], 500, "Internal Server Error")]
             /\ UNCHANGED <<fs, nextOid, origin>>
    /\ UNCHANGED <<records, nextDocId, clock, streams, listResp,
                   insertFailed, blobLeft, recLeft, permDeleted, removed, softClean, lateWrites>>

\* datetime.now: time is read off the blobs written so far, so it never runs backwards
Now == nextOid

\* lines 104-125: GridFSFile(...).insert() and the FileUploadResponse
NewRecord(r, file_id) ==
    LET loc == Get(req[r].loc) IN
    [id |-> nextDocId, filename |-> loc.filename, content_type |-> loc.content_type,
     upload_date |-> Now, file_id |-> file_id, owner_id |-> req[r].inp.owner_id,
     status |-> ACTIVE, file_size |-> loc.file_size, tags |-> loc.tag_list,
     description |-> req[r].inp.description]

\* an upload that inserts the record first, under the id the blob is going to get
UploadInsertFirst(r) ==
    /\ req[r].op = "upload" /\ req[r].pc = "upload_blob"
    /\ LET doc == NewRecord(r, OidStr(nextOid)) IN
       /\ records' = (doc.id :> doc) @@ records
       /\ nextDocId' = nextDocId + 1
       /\ req' = [req EXCEPT ![r] = Goto(req[r], "upload_blob_late", req[r].loc)]
    /\ UNCHANGED <<fs, nextOid, clock, streams, listResp, history>>

UploadInsert(r) ==
    /\ req[r].op = "upload" /\ req[r].pc = "insert"
    /\ LET loc == Get(req[r].loc)
           doc == NewRecord(r, Get(loc.file_id))
       IN \/ /\ records' = (doc.id :> doc) @@ records
             /\ nextDocId' = nextDocId + 1
             /\ req' = [req EXCEPT ![r] =
                          Reply(req[r],
                                [file_id |-> doc.file_id, filename |-> doc.filename,
                                 file_size |-> doc.file_size, status |-> doc.status,
                                 owner_id |-> doc.owner_id])]
             /\ UNCHANGED insertFailed
          \/ \* the record store raises: the blob stays behind without a record
             /\ req' = [req EXCEPT ![r] = Fail(req[r], 500, "Internal Server Error")]
             /\ insertFailed' = insertFailed \cup {Get(loc.file_id)}
             /\ UNCHANGED <<records, nextDocId>>
    /\ UNCHANGED <<fs, nextOid, clock, streams, listResp,
                   origin, blobLeft, recLeft, permDeleted, removed, softClean, lateWrites>>

\* --------------------------------------------------------- GET /files/{id}
IsAscii(c) == c # "U+00E9"
\* quote(filename.encode('utf-8')): percent-encoding of the UTF-8 bytes
QuoteChar(c) == IF c = "U+00E9" THEN <<"%", "C", "3", "%", "A", "9">> ELSE <<c>>
RECURSIVE Quote(_)
Quote(s) == IF s = << >> THEN << >> ELSE QuoteChar(s[1]) \o Quote(Tail(s))

\* lines 178-187: the Content-Disposition header
ContentDisposition(filename) ==
    IF \A i \in 1..Len(filename) : IsAscii(filename[i])
    THEN [form |-> "filename=", value |-> filename]
    ELSE [form |-> "filename*=UTF-8''", value |-> Quote(filename)]

\* gridfs_bucket.find({"_id": oid}), first document or None
GridFSFind(oid) == IF oid \in DOMAIN fs THEN Some(fs[oid]) ELSE None

\* lines 130-151: the id check and gridfs_bucket.find({"_id": oid})
GetFileFind(r, file_id) ==
    /\ Accept(r)
    /\ LET q == Begin("download", [file_id |-> file_id])
           oid == ObjectIdOf(file_id)
       IN IF ~ObjectIdIsValid(file_id)
          THEN req' = [req EXCEPT ![r] = Fail(q, 400, "Invalid file ID")]
          ELSE IF IsNone(GridFSFind(oid))
          THEN req' = [req EXCEPT ![r] = Fail(q, 404, "File Not Found in GridFS")]
          ELSE LET file_doc == Get(GridFSFind(oid))
                   loc == [oid |-> oid,
                           filename |-> IF file_doc.filename = << >> THEN s_file
                                        ELSE file_doc.filename,
                           content_type |-> file_doc.metadata.content_type,
                           file_size |-> file_doc.length]
               IN req' = [req EXCEPT ![r] = Goto(q, "open", Some(loc))]
    /\ UNCHANGED <<stores, listResp, history>>

\* lines 153-160 and 189-196: open_download_stream under wait_for, then the
\* StreamingResponse with its headers
GetFileOpen(r) ==
    /\ req[r].op = "download" /\ req[r].pc = "open"
    /\ LET loc == Get(req[r].loc) IN
       \/ /\ loc.oid \in DOMAIN fs
          /\ grid_out' = [grid_out EXCEPT ![r] =
                            [open |-> TRUE, opened |-> TRUE, oid |-> Some(loc.oid),
                             length |-> fs[loc.oid].length, pos |-> 0,
                             how |-> "none", detected |-> FALSE]]
          /\ req' = [req EXCEPT ![r] =
                       [@ EXCEPT !.pc = "stream",
                                 !.resp = [status |-> 200,
                                           body |-> Some([media_type |-> loc.content_type,
                                                          content_disposition |-> ContentDisposition(loc.filename),
                                                          content_length |-> loc.file_size])]]]
       \/ \* asyncio.TimeoutError
          /\ req' = [req EXCEPT ![r] = Fail(req[r], 504, "Timeout File too large or server busy")]
          /\ UNCHANGED grid_out
       \/ \* any other exception (NoFile when the blob is gone)
          /\ req' = [req EXCEPT ![r] = Fail(req[r], 400, "Stream error")]
          /\ UNCHANGED grid_out
    /\ UNCHANGED <<stores, clock, wire, conn, listResp, history>>

\* the finally clause of stream_file: grid_out.close()
StreamLeak(h, how) == [h EXCEPT !.how = how]
StreamFinally(h, how) == [h EXCEPT !.open = FALSE, !.how = how]

\* lines 165-168: one readchunk of the loop, and the yield
StreamReadChunk(r) ==
    /\ req[r].op = "download" /\ req[r].pc = "stream"
    /\ LET h == grid_out[r]
           oid == Get(h.oid)
       IN IF h.pos * ChunkSize >= h.length
          THEN \* readchunk returns b"": break
               /\ grid_out' = [grid_out EXCEPT ![r] = StreamFinally(h, "eof")]
               /\ req' = [req EXCEPT ![r] = [@ EXCEPT !.pc = "done", !.loc = None]]
               /\ UNCHANGED wire
          ELSE \/ /\ oid \in DOMAIN fs
                  /\ grid_out' = [grid_out EXCEPT ![r].pos = h.pos + 1]
                  /\ wire' = [wire EXCEPT ![r] = @ \o fs[oid].chunks[h.pos + 1]]
                  /\ req' = [req EXCEPT ![r].pc = "check"]
               \/ \* readchunk raises (store error, or the chunk was deleted): printed
                  /\ grid_out' = [grid_out EXCEPT ![r] = StreamFinally(h, "error")]
                  /\ req' = [req EXCEPT ![r] = [@ EXCEPT !.pc = "done", !.loc = None]]
                  /\ UNCHANGED wire
    /\ UNCHANGED <<stores, clock, conn, listResp, history>>

\* what the loop does once request.is_disconnected() has answered True
BreakOnDisconnect(r) ==
    /\ grid_out' = [grid_out EXCEPT ![r] =
                      StreamFinally([grid_out[r] EXCEPT !.detected = TRUE], "disconnect")]
    /\ req' = [req EXCEPT ![r] = [@ EXCEPT !.pc = "done", !.loc = None]]

\* lines 170-172: request.is_disconnected() after each yield
StreamCheckDisconnect(r) ==
    /\ req[r].op = "download" /\ req[r].pc = "check"
    /\ IF ~conn[r]
       THEN BreakOnDisconnect(r)
       ELSE /\ req' = [req EXCEPT ![r].pc = "stream"]
            /\ UNCHANGED grid_out
    /\ UNCHANGED <<stores, clock, wire, conn, listResp, history>>

\* the client goes away during the transfer
ClientDisconnect(r) ==
    /\ req[r].op = "download" /\ req[r].pc \in {"stream", "check"}
    /\ conn[r]
    /\ conn' = [conn EXCEPT ![r] = FALSE]
    /\ UNCHANGED <<stores, clock, req, grid_out, wire, listResp, history>>

\* ---------------------------------------------------- GET /files/{id}/info
\* lines 202-220: what get_file_info answers for file_id on the current store
GetFileInfoResponse(file_id) ==
    IF ~ObjectIdIsValid(file_id) THEN [status |-> 400, body |-> Some("Invalid file ID")]
    ELSE IF IsNone(FindOne(file_id)) THEN [status |-> 404, body |-> Some("File not found")]
    ELSE [status |-> 200, body |-> Some(FileListResponse(records[Get(FindOne(file_id))]))]

GetFileInfo(r, file_id) ==
    /\ Accept(r)
    /\ req' = [req EXCEPT ![r] = [Begin("info", [file_id |-> file_id]) EXCEPT
                                    !.pc = "done", !.resp = GetFileInfoResponse(file_id)]]
    /\ UNCHANGED <<stores, listResp, history>>

\* --------------------------------------------------------- PUT /files/{id}
UpdateKeys == {"status", "tags", "description"}

\* FileUpdateRequest bodies: each field absent (None) or supplied
UpdateBodies ==
    [status : {None, Some(FLAGGED)}, tags : {None, Some(<<<<"t">>>>)},
     description : {None, Some(<< >>)}]

\* the value a supplied field is stored as (description is Optional[str] in the document)
Stored(k, v) == IF k = "description" THEN Some(v) ELSE v
Cleared(k) == CASE k = "status" -> ACTIVE [] k = "tags" -> << >> [] OTHER -> None

\* a dict of every field of the body, the absent ones cleared
UpdateDictAll(update_data) ==
    [k \in UpdateKeys |-> IF IsNone(update_data[k]) THEN Cleared(k)
                          ELSE Stored(k, Get(update_data[k]))]

\* lines 234-241: update_dict holds the fields that are not None
UpdateDict(update_data) ==
    [k \in {k \in UpdateKeys : ~IsNone(update_data[k])} |-> Stored(k, Get(update_data[k]))]

\* {"$set": update_dict} on one document
ApplySet(doc, dict) ==
    [f \in DOMAIN doc |-> IF f \in DOMAIN dict THEN dict[f] ELSE doc[f]]

\* Document.update as an upsert: writes the handler's copy back when the document is gone
RecordUpsert(id, dict, copy) ==
    IF id \in DOMAIN records
    THEN [records EXCEPT ![id] = ApplySet(@, dict)]
    ELSE (id :> ApplySet(copy, dict)) @@ records

\* file_doc.update({"$set": dict}): update_one on {"_id": file_doc.id}; no document, no write
RecordUpdate(id, dict, copy) ==
    IF id \in DOMAIN records
    THEN [records EXCEPT ![id] = ApplySet(@, dict)]
    ELSE records

\* lines 226-232 (and 243 with an empty update_dict, which returns the document read)
UpdateFind(r, file_id, update_data) ==
    /\ Accept(r)
    /\ LET q == Begin("update", [file_id |-> file_id, update_data |-> update_data])
           found == FindOne(file_id)
       IN IF ~ObjectIdIsValid(file_id)
          THEN req' = [req EXCEPT ![r] = Fail(q, 400, "Invalid file ID")]
          ELSE IF IsNone(found)
          THEN req' = [req EXCEPT ![r] = Fail(q, 404, "File not found")]
          ELSE LET file_doc == records[Get(found)] IN
               IF DOMAIN UpdateDict(update_data) = {}
               THEN req' = [req EXCEPT ![r] = Reply(q, FileListResponse(file_doc))]
               ELSE req' = [req EXCEPT ![r] = Goto(q, "update", Some(file_doc))]
    /\ UNCHANGED <<stores, listResp, history>>

\* line 244: await file_doc.update({"$set": update_dict})
UpdateWrite(r) ==
    /\ req[r].op = "update" /\ req[r].pc = "update"
    /\ LET file_doc == Get(req[r].loc) IN
       /\ records' = RecordUpdate(file_doc.id, UpdateDict(req[r].inp.update_data), file_doc)
       /\ softClean' = IF file_doc.id \in DOMAIN records
                       THEN softClean \ {file_doc.file_id} ELSE softClean
       /\ lateWrites' = IF file_doc.id \notin DOMAIN records /\ file_doc.file_id \in removed
                        THEN lateWrites \cup {file_doc.file_id} ELSE lateWrites
       /\ req' = [req EXCEPT ![r].pc = "refresh"]
    /\ UNCHANGED <<fs, nextOid, nextDocId, clock, streams, listResp,
                   origin, insertFailed, blobLeft, recLeft, permDeleted, removed>>

\* lines 246-258: file_doc.refresh() (DocumentNotFound when it is gone) and the response
UpdateRefresh(r) ==
    /\ req[r].op = "update" /\ req[r].pc = "refresh"
    /\ LET id == Get(req[r].loc).id IN
       IF id \in DOMAIN records
       THEN req' = [req EXCEPT ![r] = Reply(req[r], FileListResponse(records[id]))]
       ELSE req' = [req EXCEPT ![r] = Fail(req[r], 500, "Internal Server Error")]
    /\ UNCHANGED <<stores, clock, streams, listResp, history>>

\* ------------------------------------------------------ DELETE /files/{id}
\* lines 264-272: the id check, find_one, and the branch on permanent
DeleteFind(r, file_id, permanent) ==
    /\ Accept(r)
    /\ LET q == Begin("delete", [file_id |-> file_id, permanent |-> permanent])
           found == FindOne(file_id)
       IN IF ~ObjectIdIsValid(file_id)
          THEN req' = [req EXCEPT ![r] = Fail(q, 400, "Invalid file ID")]
          ELSE IF IsNone(found)
          THEN req' = [req EXCEPT ![r] = Fail(q, 404, "File not found")]
          ELSE req' = [req EXCEPT ![r] =
                         Goto(q, IF permanent THEN "delete_blob" ELSE "soft_delete",
                              Some(records[Get(found)]))]
    /\ UNCHANGED <<stores, listResp, history>>

\* lines 274-278: gridfs_bucket.delete(oid), its exception printed and dropped
DeleteGridFS(r) ==
    /\ req[r].op = "delete" /\ req[r].pc = "delete_blob"
    /\ LET oid == ObjectIdOf(req[r].inp.file_id) IN
       \/ /\ oid \in DOMAIN fs
          /\ fs' = [o \in DOMAIN fs \ {oid} |-> fs[o]]
          /\ blobLeft' = blobLeft \ {oid}
          /\ softClean' = softClean \ {oid}
       \/ \* the delete raises (NoFile when the blob is gone, or a store error)
          /\ blobLeft' = IF oid \in DOMAIN fs THEN blobLeft \cup {oid} ELSE blobLeft
          /\ UNCHANGED <<fs, softClean>>
    /\ req' = [req EXCEPT ![r].pc = "delete_record"]
    /\ UNCHANGED <<records, nextOid, nextDocId, clock, streams, listResp,
                   origin, insertFailed, recLeft, permDeleted, removed, lateWrites>>

\* a permanent delete that answers without removing the record
DeleteRecordKeeps(r) ==
    /\ req[r].op = "delete" /\ req[r].pc = "delete_record"
    /\ permDeleted' = permDeleted \cup {Get(req[r].loc).file_id}
    /\ req' = [req EXCEPT ![r] = Reply(req[r], "File permanently deleted")]
    /\ UNCHANGED <<stores, clock, streams, listResp,
                   origin, insertFailed, blobLeft, recLeft, removed, softClean, lateWrites>>

\* lines 280-282: file_doc.delete() and the answer
DeleteRecord(r) ==
    /\ req[r].op = "delete" /\ req[r].pc = "delete_record"
    /\ LET file_doc == Get(req[r].loc) IN
       \/ /\ records' = [d \in DOMAIN records \ {file_doc.id} |-> records[d]]
          /\ removed' = IF file_doc.id \in DOMAIN records
                        THEN removed \cup {file_doc.file_id} ELSE removed
          /\ permDeleted' = permDeleted \cup {file_doc.file_id}
          /\ recLeft' = recLeft \ {file_doc.file_id}
          /\ softClean' = softClean \ {file_doc.file_id}
          /\ req' = [req EXCEPT ![r] = Reply(req[r], "File permanently deleted")]
       \/ \* the record store raises: the handler ends with a 500, the record stays
          /\ recLeft' = IF file_doc.id \in DOMAIN records
                        THEN recLeft \cup {file_doc.file_id} ELSE recLeft
          /\ req' = [req EXCEPT ![r] = Fail(req[r], 500, "Internal Server Error")]
          /\ UNCHANGED <<records, removed, permDeleted, softClean>>
    /\ UNCHANGED <<fs, nextOid, nextDocId, clock, streams, listResp,
                   origin, insertFailed, blobLeft, lateWrites>>

\* the $set of a soft delete
SoftDeleteFlag == [status |-> FLAGGED]
SoftDeleteSet == [status |-> DELETED]

\* a soft delete that also deletes the blob from GridFS
SoftDeleteDropsBlob(r) ==
    /\ req[r].op = "delete" /\ req[r].pc = "soft_delete"
    /\ LET file_doc == Get(req[r].loc) IN
       /\ fs' = [o \in DOMAIN fs \ {file_doc.file_id} |-> fs[o]]
       /\ records' = RecordUpdate(file_doc.id, SoftDeleteSet, file_doc)
       /\ req' = [req EXCEPT ![r] = Reply(req[r], "File marked as deleted")]
    /\ UNCHANGED <<nextOid, nextDocId, clock, streams, listResp, history>>

\* lines 283-286: file_doc.update({"$set": {"status": FileStatus.DELETED}})
SoftDelete(r) ==
    /\ req[r].op = "delete" /\ req[r].pc = "soft_delete"
    /\ LET file_doc == Get(req[r].loc) IN
       /\ records' = RecordUpdate(file_doc.id, SoftDeleteSet, file_doc)
       /\ softClean' = IF file_doc.id \in DOMAIN records /\ file_doc.file_id \in DOMAIN fs
                       THEN softClean \cup {file_doc.file_id} ELSE softClean
       /\ lateWrites' = IF file_doc.id \notin DOMAIN records /\ file_doc.file_id \in removed
                        THEN lateWrites \cup {file_doc.file_id} ELSE lateWrites
       /\ req' = [req EXCEPT ![r] = Reply(req[r], "File marked as deleted")]
    /\ UNCHANGED <<fs, nextOid, nextDocId, clock, streams, listResp,
                   origin, insertFailed, blobLeft, recLeft, permDeleted, removed>>

\* ------------------------------------------------------------ the requests
s_bad_short == <<"x", "y", "z">>
s_bad_hex == [i \in 1..OidHexLen |-> IF i = OidHexLen THEN "g" ELSE "0"]

\* ids a client may send: those handed out, the next one, and a malformed one
IdInputs == {OidStr(i) : i \in 1..Min(nextOid, MaxUploads)} \cup {s_bad_hex}

Upload(r) == FirstFree(r) /\ clock < MaxOps /\ \E in \in UploadInputs : UploadValidate(r, in)
Download(r) == FirstFree(r) /\ clock < MaxOps /\ \E id \in IdInputs : GetFileFind(r, id)
Info(r) ==
    FirstFree(r) /\ clock < MaxOps /\ \E id \in IdInputs \cup {s_bad_short} : GetFileInfo(r, id)
\* update_file does not look at the body before it has found the record: a request
\* that finds none is sent with one body, the one supplying every field
FullBody == [status |-> Some(FLAGGED), tags |-> Some(<<<<"t">>>>), description |-> Some(<< >>)]
Update(r) ==
    /\ FirstFree(r) /\ clock < MaxOps
    /\ \E id \in IdInputs, u \in UpdateBodies :
          /\ IsNone(FindOne(id)) => u = FullBody
          /\ UpdateFind(r, id, u)
Delete(r) ==
    FirstFree(r) /\ clock < MaxOps /\ \E id \in IdInputs, p \in BOOLEAN : DeleteFind(r, id, p)

\* The lifecycle of a file: upload, metadata lookup and update, the two deletes.
Next ==
    \E r \in Reqs :
        \/ Upload(r)
        \/ UploadToGridFS(r)
        \/ UploadInsert(r)
        \/ Info(r)
        \/ Update(r)
        \/ UpdateWrite(r)
        \/ UpdateRefresh(r)
        \/ Delete(r)
        \/ DeleteGridFS(r)
        \/ DeleteRecord(r)
        \/ SoftDelete(r)

Spec == Init /\ [][Next]_vars

\* Transfers: upload, streamed download, and the deletes that may run beside them.
NextDownload ==
    \E r \in Reqs :
        \/ Upload(r)
        \/ UploadToGridFS(r)
        \/ UploadInsert(r)
        \/ Download(r)
        \/ GetFileOpen(r)
        \/ StreamReadChunk(r)
        \/ StreamCheckDisconnect(r)
        \/ ClientDisconnect(r)
        \/ Delete(r)
        \/ DeleteGridFS(r)
        \/ DeleteRecord(r)
        \/ SoftDelete(r)

\* The response is iterated until stream_file ends: each step of the generator that
\* can be taken is taken eventually.
DownloadSpec ==
    /\ Init
    /\ [][NextDownload]_vars
    /\ \A r \in Reqs : WF_vars(StreamReadChunk(r)) /\ WF_vars(StreamCheckDisconnect(r))

\* -------------------------------------------------------------- GET /files
\* Query(50, ge=1, le=1000) and Query(0, ge=0)
DefaultLimit == 50
MinLimit == 1
MaxLimit == 1000
DefaultSkip == 0
MinSkip == 0

\* a limit query parameter that clamps into [MinLimit, MaxLimit] instead of rejecting
LimitClamped(limit) ==
    IF IsNone(limit) THEN [ok |-> TRUE, v |-> DefaultLimit]
    ELSE IF Get(limit) < MinLimit THEN [ok |-> TRUE, v |-> MinLimit]
    ELSE IF Get(limit) > MaxLimit THEN [ok |-> TRUE, v |-> MaxLimit]
    ELSE [ok |-> TRUE, v |-> Get(limit)]

\* line 295: the default when absent, a validation error outside [ge, le]
LimitQuery(limit) ==
    IF IsNone(limit) THEN [ok |-> TRUE, v |-> DefaultLimit]
    ELSE IF Get(limit) < MinLimit \/ Get(limit) > MaxLimit THEN [ok |-> FALSE, v |-> 0]
    ELSE [ok |-> TRUE, v |-> Get(limit)]

\* line 296
SkipQuery(skip) ==
    IF IsNone(skip) THEN [ok |-> TRUE, v |-> DefaultSkip]
    ELSE IF Get(skip) < MinSkip THEN [ok |-> FALSE, v |-> 0]
    ELSE [ok |-> TRUE, v |-> Get(skip)]

\* "$options": "i"
LowerChar(c) == CASE c = "I" -> "i" [] c = "M" -> "m" [] c = "A" -> "a" [] c = "G" -> "g"
                  [] c = "E" -> "e" [] c = "V" -> "v" [] c = "D" -> "d" [] c = "O" -> "o"
                  [] OTHER -> c
Lower(str) == [i \in 1..Len(str) |-> LowerChar(str[i])]

Truthy(o) == ~IsNone(o) /\ Get(o) # << >>

\* lines 301-316: filter_query, as a predicate on one document
Matches(doc, q) ==
    /\ Truthy(q.owner_id) => doc.owner_id = q.owner_id
    /\ ~IsNone(q.status) => doc.status = Get(q.status)
    /\ Truthy(q.content_type) => StartsWith(Lower(doc.content_type), Lower(Get(q.content_type)))
    /\ (Truthy(q.tags) /\ ParseTags(q.tags) # << >>) =>
           \E i \in 1..Len(doc.tags), j \in 1..Len(ParseTags(q.tags)) :
               doc.tags[i] = ParseTags(q.tags)[j]

\* the documents in natural (_id) order
DocsInOrder ==
    LET ids == SelectSeq([i \in 1..(nextDocId - 1) |-> i], LAMBDA i : i \in DOMAIN records)
    IN [k \in 1..Len(ids) |-> records[ids[k]]]

\* line 319: GridFSFile.find(filter_query).skip(skip).limit(limit)
FindSkipLimit(q, skip, limit) ==
    LET found == SelectSeq(DocsInOrder, LAMBDA d : Matches(d, q))
    IN SubSeq(found, skip + 1, Min(Len(found), skip + limit))

\* lines 290-337
ListFilesResponse(q) ==
    IF ~LimitQuery(q.limit).ok \/ ~SkipQuery(q.skip).ok
    THEN [status |-> 422, body |-> << >>]
    ELSE LET files == FindSkipLimit(q, SkipQuery(q.skip).v, LimitQuery(q.limit).v)
         IN [status |-> 200, body |-> [i \in 1..Len(files) |-> FileListResponse(files[i])]]

s_IMAGE == <<"I", "M", "A", "G", "E", "/">>
s_tags_ab == <<"a", ",", "b">>

ListFilters ==
    { [owner_id |-> None, status |-> None, content_type |-> None, tags |-> None],
      [owner_id |-> None, status |-> Some(DELETED), content_type |-> None, tags |-> None],
      [owner_id |-> Some(s_u1), status |-> None, content_type |-> Some(s_IMAGE), tags |-> None],
      [owner_id |-> None, status |-> None, content_type |-> None, tags |-> Some(s_tags_ab)] }

ListLimits == {None, Some(0 - 1), Some(0), Some(MinLimit), Some(DefaultLimit), Some(MaxLimit),
               Some(MaxLimit + 1), Some(MaxLimit + MaxLimit)}
ListSkips == {None, Some(0 - 1), Some(0), Some(MaxListExtra)}

\* list_files only reads the store: one request per behaviour shows all it can do
ListFiles(f, limit, skip) ==
    /\ listResp = NoList
    /\ LET q == [owner_id |-> f.owner_id, status |-> f.status, content_type |-> f.content_type,
                 tags |-> f.tags, limit |-> limit, skip |-> skip]
       IN listResp' = [query |-> Some(q)] @@ ListFilesResponse(q)
    /\ UNCHANGED <<stores, clock, req, streams, history>>

\* a record store as uploads and updates leave it: document i of n
ListDoc(i) ==
    [id |-> i, filename |-> s_a_png,
     content_type |-> IF i % 2 = 0 THEN s_image_png ELSE s_video_mp4,
     upload_date |-> i, file_id |-> OidStr(i),
     owner_id |-> IF i % 3 = 0 THEN Some(s_u1) ELSE None,
     status |-> IF i % 5 = 0 THEN DELETED ELSE ACTIVE, file_size |-> 0,
     tags |-> IF i % 4 = 0 THEN <<<<"a">>>> ELSE IF i % 4 = 1 THEN <<<<"b">>, <<"c">>>> ELSE << >>,
     description |-> None]

ListSizes == {0, MinLimit + 1, DefaultLimit + MaxListExtra, MaxLimit + MaxListExtra}

InitList ==
    /\ \E n \in ListSizes :
        /\ records = [i \in 1..n |-> ListDoc(i)]
        /\ nextDocId = n + 1
        /\ nextOid = n + 1
        /\ fs = [o \in {OidStr(i) : i \in 1..n} |->
                   [filename |-> s_a_png, length |-> 0, chunks |-> << >>,
                    metadata |-> [content_type |-> s_image_png, original_name |-> s_a_png,
                                  owner_id |-> None, file_size |-> 0]]]
    /\ InitRest

NextList == \E f \in ListFilters, limit \in ListLimits, skip \in ListSkips : ListFiles(f, limit, skip)

ListSpec == InitList /\ [][NextList]_vars

\* ================================================================== claims

\* ------------------------------------------------------------------- C8
ListAnswered == listResp.status # 0
ListQuery == Get(listResp.query)
MatchCount(q) == Cardinality({d \in DOMAIN records : Matches(records[d], q)})

\* C8, as stated: a list request whose limit is above 1000 is served as if the
\* limit were 1000 (status 200 and the first 1000 matching records after skip).
C8_Original ==
    (ListAnswered /\ ~IsNone(ListQuery.limit) /\ Get(ListQuery.limit) > 1000
       /\ SkipQuery(ListQuery.skip).ok)
    => /\ listResp.status = 200
       /\ Len(listResp.body) = Min(1000, MatchCount(ListQuery) - SkipQuery(ListQuery.skip).v)

\* C8, amended: a limit outside [1, 1000] is rejected with a validation error (422)
\* and no record is returned; a limit inside it returns at most that many records
\* (so never more than 1000), and a request without a limit returns at most 50:
\* exactly the matching records left after skip, cut at the limit.
C8_LimitRejectedOutsideRange ==
    ListAnswered =>
        LET q == ListQuery
            given == ~IsNone(q.limit)
            lim == IF given THEN Get(q.limit) ELSE DefaultLimit
            skipped == IF IsNone(q.skip) THEN 0 ELSE Get(q.skip)
            left == IF MatchCount(q) > skipped THEN MatchCount(q) - skipped ELSE 0
        IN /\ (given /\ (lim < 1 \/ lim > 1000)) =>
                 (listResp.status = 422 /\ listResp.body = << >>)
           /\ listResp.status \in {200, 422}
           /\ listResp.status = 200 =>
                 /\ Len(listResp.body) <= 1000
                 /\ Len(listResp.body) = Min(lim, left)
                 /\ ~given => Len(listResp.body) <= 50

\* a list request with limit = 2000 against a store of more than 1000 records is rejected
C8_Witness ==
    /\ ListAnswered
    /\ ListQuery.limit = Some(2000)
    /\ Cardinality(DOMAIN records) > 1000
    /\ listResp.status = 422

\* ------------------------------------------------------------------- C1
HasRecord(b) == \E d \in DOMAIN records : records[d].file_id = b
InUploadWindow(b) ==
    \E r \in Reqs : /\ req[r].op = "upload" /\ req[r].pc = "insert"
                    /\ Get(req[r].loc).file_id = Some(b)
InDeleteWindow(b) ==
    \E r \in Reqs : /\ req[r].op = "delete" /\ req[r].pc = "delete_record"
                    /\ Get(req[r].loc).file_id = b
Quiescent == \A r \in Reqs : req[r].pc \in {"idle", "done"}

\* C1, as stated, read at its most lenient (only states with no request in flight, and
\* what a failed record insert or a failed record delete leaves behind excused): a
\* record exists iff a blob with its blobId exists.
C1_Original ==
    Quiescent =>
        /\ \A b \in DOMAIN fs : HasRecord(b) \/ b \in insertFailed
        /\ \A d \in DOMAIN records :
              records[d].file_id \in DOMAIN fs \/ records[d].file_id \in recLeft

\* C1, amended: a blob without a record is the blob of an upload between its blob write
\* and its record insert, of an upload whose record insert failed, or of a permanent
\* delete whose blob deletion failed; a record without a blob is the record of a
\* permanent delete that has removed the blob and not (or not successfully) the record.
C1_StoresAgreeUpToWindows ==
    /\ \A b \in DOMAIN fs :
          HasRecord(b) \/ InUploadWindow(b) \/ b \in insertFailed \/ b \in blobLeft
    /\ \A d \in DOMAIN records :
          \/ records[d].file_id \in DOMAIN fs
          \/ InDeleteWindow(records[d].file_id)
          \/ records[d].file_id \in recLeft

\* a permanent delete has returned, its blob deletion having failed: the blob is left
\* without a record
C1_Witness ==
    /\ Quiescent
    /\ \E b \in DOMAIN fs : ~HasRecord(b) /\ b \in blobLeft /\ b \in permDeleted

\* ------------------------------------------------------------------- C2
\* C2: whenever a record becomes visible in the record store, the blob named by its
\* file_id is already in the blob store, whole (the bytes the client sent, all of them).
C2_BlobBeforeRecord ==
    [][\A d \in DOMAIN records' \ DOMAIN records :
          LET f == records'[d].file_id IN
          /\ f \in DOMAIN fs
          /\ JoinChunks(fs[f].chunks) = origin[f]
          /\ fs[f].length = Len(origin[f])
          /\ records'[d].file_size = Len(origin[f])]_vars

\* an upload of a non-empty payload has inserted its record
C2_Witness ==
    \E r \in Reqs, d \in DOMAIN records :
        /\ req[r].op = "upload" /\ req[r].pc = "done" /\ req[r].resp.status = 200
        /\ records[d].file_id \in DOMAIN fs
        /\ records[d].file_size > 0

\* ------------------------------------------------------------------- C3
C3_BadType(ct) ==
    \/ ct = << >>
    \/ ct[1] = << >>
    \/ ~(StartsWith(ct[1], <<"i", "m", "a", "g", "e", "/">>)
          \/ StartsWith(ct[1], <<"v", "i", "d", "e", "o", "/">>))
C3_BadId(id) == Len(id) # 24 \/ \E i \in 1..Len(id) : id[i] \notin HexDigits
C3_Invalid(q) ==
    \/ q.op = "upload" /\ C3_BadType(q.inp.content_type)
    \/ q.op \in {"update", "delete"} /\ C3_BadId(q.inp.file_id)

\* C3: the step that takes an upload whose content type is missing or starts with
\* neither image/ nor video/, or an update or delete with a malformed id, answers 400 at
\* once and leaves the blob store and the record store as they were.
C3_RejectedBeforeAnyWrite ==
    [][\A r \in Reqs :
          (req'[r] # req[r] /\ C3_Invalid(req'[r])) =>
              /\ req'[r].pc = "done"
              /\ req'[r].resp.status = 400
              /\ fs' = fs
              /\ records' = records]_vars

\* an upload with a bad content type was rejected while the stores held a file
C3_Witness ==
    \E r \in Reqs :
        /\ req[r].op = "upload" /\ req[r].pc = "done" /\ req[r].resp.status = 400
        /\ C3_BadType(req[r].inp.content_type)
        /\ DOMAIN records # {} /\ DOMAIN fs # {}

\* ------------------------------------------------------------------- C4
\* what a download of file_id finds in the blob store
DownloadFinds(file_id) == ~IsNone(GridFSFind(ObjectIdOf(file_id)))

\* C4, as stated: once a permanent delete has returned, whatever its blob deletion did,
\* get_file_info answers 404 for the id and a download of it fails.
C4_Original ==
    \A f \in permDeleted :
        GetFileInfoResponse(f).status = 404 /\ ~DownloadFinds(f)

\* C4, amended: once a permanent delete has returned, get_file_info answers 404 for the
\* id whatever the blob deletion did; a download of it fails when the blob deletion
\* succeeded, and still finds the blob when the blob deletion failed and left it.
C4_DeletedUnlessBlobLeft ==
    \A f \in permDeleted :
        /\ GetFileInfoResponse(f).status = 404
        /\ f \notin blobLeft => ~DownloadFinds(f)
        /\ f \in blobLeft => DownloadFinds(f)

\* a permanent delete whose blob deletion succeeded has returned
C4_Witness ==
    \E r \in Reqs :
        /\ req[r].op = "delete" /\ req[r].pc = "done" /\ req[r].resp.status = 200
        /\ req[r].inp.permanent
        /\ req[r].inp.file_id \in permDeleted \ blobLeft
        /\ req[r].inp.file_id \in removed

\* ------------------------------------------------------------------- C5
\* C5: after a soft delete of an existing file (while no later write has touched it),
\* get_file_info returns its record with status deleted and a download finds the blob,
\* whole; the soft delete's write changes nothing but that status.
C5_SoftDeleteKeepsBoth ==
    /\ [](\A f \in softClean :
            /\ GetFileInfoResponse(f).status = 200
            /\ Get(GetFileInfoResponse(f).body).status = "deleted"
            /\ DownloadFinds(f)
            /\ JoinChunks(fs[f].chunks) = origin[f])
    /\ [][\A r \in Reqs :
            (req[r].pc = "soft_delete" /\ req'[r].pc = "done") =>
                /\ fs' = fs
                /\ DOMAIN records' = DOMAIN records
                /\ \A d \in DOMAIN records :
                      records'[d] = IF d = Get(req[r].loc).id
                                    THEN [records[d] EXCEPT !.status = "deleted"]
                                    ELSE records[d]]_vars

\* a soft delete of an uploaded file has returned
C5_Witness ==
    \E r \in Reqs :
        /\ req[r].op = "delete" /\ req[r].pc = "done" /\ req[r].resp.status = 200
        /\ ~req[r].inp.permanent
        /\ req[r].inp.file_id \in softClean

\* ------------------------------------------------------------------- C6
C6_Frozen == {"id", "file_id", "filename", "content_type", "file_size", "upload_date",
              "owner_id"}

\* C6: a step of an update request changes, in the record it addresses, only the fields
\* the request supplies, each to the value supplied; status, tags and description that
\* are not supplied keep their values, and file_id, filename, file_size and upload_date
\* never change; no other record and no blob changes.
C6_UpdateOnlySupplied ==
    [][\A r \in Reqs :
          (req'[r] # req[r] /\ req'[r].op = "update") =>
              LET u == req'[r].inp.update_data IN
              /\ fs' = fs
              /\ DOMAIN records' = DOMAIN records
              /\ \A d \in DOMAIN records :
                    /\ \A k \in C6_Frozen : records'[d][k] = records[d][k]
                    /\ IF u.status = << >> \/ records[d].file_id # req'[r].inp.file_id
                       THEN records'[d].status = records[d].status
                       ELSE records'[d].status \in {records[d].status, u.status[1]}
                    /\ IF u.tags = << >> \/ records[d].file_id # req'[r].inp.file_id
                       THEN records'[d].tags = records[d].tags
                       ELSE records'[d].tags \in {records[d].tags, u.tags[1]}
                    /\ IF u.description = << >> \/ records[d].file_id # req'[r].inp.file_id
                       THEN records'[d].description = records[d].description
                       ELSE records'[d].description \in {records[d].description, <<u.description[1]>>}
              /\ (req[r].pc = "update" /\ Get(req[r].loc).id \in DOMAIN records) =>
                    LET d == Get(req[r].loc).id IN
                    /\ u.status # << >> => records'[d].status = u.status[1]
                    /\ u.tags # << >> => records'[d].tags = u.tags[1]
                    /\ u.description # << >> => records'[d].description = <<u.description[1]>>]_vars

\* an update with only tags has been applied to a record whose status and description
\* are not the defaults
C6_Witness ==
    \E r \in Reqs, d \in DOMAIN records :
        /\ req[r].op = "update" /\ req[r].pc \in {"refresh", "done"}
        /\ req[r].inp.update_data = [status |-> << >>, tags |-> <<<<<<"t">>>>>>, description |-> << >>]
        /\ records[d].file_id = req[r].inp.file_id
        /\ records[d].tags = <<<<"t">>>>
        /\ records[d].description # << >>

\* ------------------------------------------------------------------ C10
\* C10: a record removed by a permanent delete is never in the record store again,
\* whatever update or soft delete writes afterwards.
C10_NoResurrection ==
    \A f \in removed : ~HasRecord(f)

\* an update or a soft delete that read the record before the permanent delete removed
\* it has done its write after the removal
C10_Witness == lateWrites # {}

\* ------------------------------------------------------------------- C7
IsPrefix(s, t) == Len(s) <= Len(t) /\ SubSeq(t, 1, Len(s)) = s
Streaming(r) == req[r].op = "download" /\ grid_out[r].opened

C9_HandleReleased ==
    /\ \A r \in Reqs : grid_out[r].open ~> ~grid_out[r].open
    /\ [](\A r \in Reqs : req[r].pc = "done" => ~grid_out[r].open)
    /\ [](\A r \in Reqs : grid_out[r].detected =>
             /\ req[r].pc = "done"
             /\ grid_out[r].how = "disconnect"
             /\ req[r].resp.status = 200)
    /\ [][\A r \in Reqs : (grid_out[r].detected /\ grid_out'[r].detected) =>
             /\ wire'[r] = wire[r]
             /\ grid_out'[r].pos = grid_out[r].pos]_vars

\* a download was cut short by a client disconnect, and its handle is closed
C9_Witness ==
    \E r \in Reqs :
        /\ grid_out[r].opened /\ ~grid_out[r].open
        /\ grid_out[r].detected /\ grid_out[r].how = "disconnect"
        /\ Len(wire[r]) < grid_out[r].length

====
